---- MODULE Spec2Model ----
(***************************************************************************)
(* A model of dupenuke's scan.py: the program opens duplicates.db, walks a *)
(* directory, checksums every regular file in a thread pool, inserts one   *)
(* row per checksummed file under a lock, prints a summary and optionally  *)
(* deletes all but the first file of every checksum group.                 *)
(*                                                                         *)
(* The database file outlives the process, so the program may be run again *)
(* against the rows left by an earlier run.                                *)
(***************************************************************************)
EXTENDS Integers, Sequences, FiniteSets, TLC

\* ---------------------------------------------------------------- bounds
\* How many times the program is run against the same duplicates.db.
MaxRuns == 2
\* How many times another process rewrites a file between the file's
\* enumeration and its checksum computation.
MaxMods == 1

\* ------------------------------------------------------------ the world
\* The regular files of the scanned tree, in the order os.walk yields them.
PathOrder == <<"a.txt", "b.TXT">>
Paths == {PathOrder[i] : i \in 1..Len(PathOrder)}

\* File contents are byte strings; a file's size is the length of its content.
Contents == {<<7, 7>>, <<8, 8, 8>>}
Absent == "absent"
None == "None"

SizeOf(content) == Len(content)

\* hashlib.sha256(...).hexdigest(): a non-empty hex string that depends on the
\* content alone and differs for different contents.
Digest(content) ==
    CASE content = <<7, 7>> -> "5e07"
      [] content = <<8, 8, 8>> -> "c1d9"

\* The order in which GROUP BY checksum returns the groups.
DigestOrder == <<"5e07", "c1d9">>

\* os.path.splitext(file_path)[1].lower()
FileType(path) ==
    CASE path = "a.txt" -> ".txt"
      [] path = "b.TXT" -> ".txt"

\* Python truthiness of calculate_checksum's result: None and "" are falsy.
Truthy(v) == v # None /\ v # ""

VARIABLES
    fs,              \* path -> content of the file, or Absent
    store,           \* the rows of table files, in rowid order
    committed,       \* number of rows made durable by conn.commit()
    mainpc,          \* position of the main thread
    runs,            \* number of program runs started
    root_ok,         \* the last run's directory_to_scan is a directory
    exit_code,       \* how the last run ended: "none", "zero" or "nonzero"
    file_list,       \* scan_directory's file_list: <<path, size>> pairs
    tpc,             \* position of each submitted process_file call
    checksum,        \* process_file's local checksum, per call
    tres,            \* how each process_file call ended
    lock,            \* threading.Lock: 0 when free, else the holder's index
    progress,        \* tqdm's count of futures yielded by as_completed
    summary,         \* the two totals display_summary prints
    files_to_delete, \* delete_duplicates' files_to_delete
    dpc,             \* state of each delete_file call
    del_progress,    \* tqdm's count of deletion futures yielded by as_completed
    mods,            \* history: number of rewrites by other processes so far
    startRows,       \* history: Len(store) when the current scan started
    allYes           \* history: every confirmation of the last plan was "y"

vars == <<fs, store, committed, mainpc, runs, root_ok, exit_code, file_list,
          tpc, checksum, tres, lock, progress, summary, files_to_delete, dpc,
          del_progress, mods, startRows, allYes>>

scanVars == <<file_list, tpc, checksum, tres, lock, progress, startRows>>
delVars == <<files_to_delete, dpc, del_progress, allYes>>

Tasks == 1..Len(file_list)

\* ------------------------------------------------------- pure operators
RECURSIVE SumSeq(_)
SumSeq(s) == IF s = <<>> THEN 0 ELSE Head(s) + SumSeq(Tail(s))

RECURSIVE Concat(_)
Concat(ss) == IF ss = <<>> THEN <<>> ELSE Head(ss) \o Concat(Tail(ss))

\* setup_database: CREATE TABLE IF NOT EXISTS keeps the rows of an existing table.
setup_database(rows) == rows

\* scan_directory, lines 44-50: every existing regular file with its size.
EnumEntry(files, path) == <<path, SizeOf(files[path])>>

Enumerate(files) ==
    LET present == SelectSeq(PathOrder, LAMBDA p : files[p] # Absent)
    IN  [i \in 1..Len(present) |-> EnumEntry(files, present[i])]

\* os.walk(directory): a root that does not exist or is no directory makes
\* scandir fail, the error is ignored (onerror is None) and nothing is yielded.
Walk(files, rootOk) == IF rootOk THEN Enumerate(files) ELSE <<>>

\* calculate_checksum when the file can be read to its end.
calculate_checksumNoUpdate(files, path) ==
    IF files[path] = Absent THEN None ELSE Digest(<<7, 7>>)

calculate_checksum(files, path) ==
    IF files[path] = Absent THEN None ELSE Digest(files[path])

\* The row process_file inserts; AUTOINCREMENT gives the next rowid.
NewRow(rows, path, sum, size) ==
    [id |-> Len(rows) + 1, path |-> path, checksum |-> sum, size |-> size,
     file_type |-> FileType(path)]

\* process_file line 65: only a truthy checksum is inserted.
ShouldInsertAlways(sum) == TRUE

ShouldInsert(sum) == Truthy(sum)

\* SELECT path FROM files WHERE checksum = ? (rowid order through idx_checksum).
RowsWithChecksum(rows, sum) == SelectSeq(rows, LAMBDA r : r.checksum = sum)
PathsWithChecksum(rows, sum) ==
    LET rs == RowsWithChecksum(rows, sum) IN [i \in 1..Len(rs) |-> rs[i].path]

\* find_duplicates: (checksum, COUNT(*), SUM(size)) of groups with COUNT(*) > 1.
GroupTuple(rows, sum) ==
    LET rs == RowsWithChecksum(rows, sum)
    IN  <<sum, Len(rs), SumSeq([i \in 1..Len(rs) |-> rs[i].size])>>

find_duplicates(rows) ==
    LET all == [i \in 1..Len(DigestOrder) |-> GroupTuple(rows, DigestOrder[i])]
    IN  SelectSeq(all, LAMBDA g : g[2] > 1)

\* display_summary, lines 90-91.
SpaceOfGroupCeil(item) == item[3] - ((item[3] + item[2] - 1) \div item[2])

SpaceOfGroup(item) == item[3] - (item[3] \div item[2])
DupsOfGroup(item) == item[2] - 1

total_space_recovered(rows) ==
    LET dups == find_duplicates(rows)
    IN  SumSeq([i \in 1..Len(dups) |-> SpaceOfGroup(dups[i])])

total_duplicates(rows) ==
    LET dups == find_duplicates(rows)
    IN  SumSeq([i \in 1..Len(dups) |-> DupsOfGroup(dups[i])])

\* delete_duplicates, lines 111-118: paths[0] is kept, paths[1:] are offered.
Keeper(paths) == paths[1]
Offered(paths) == Tail(paths)

Candidates(rows) ==
    LET dups == find_duplicates(rows)
    IN  Concat([i \in 1..Len(dups) |-> Offered(PathsWithChecksum(rows, dups[i][1]))])

\* Nothing printed yet.
NoSummary == [total_duplicates |-> 0, total_space_recovered |-> 0]

\* ------------------------------------------------------------------ Init
Init ==
    /\ fs \in [Paths -> Contents]
    /\ store = <<>>
    /\ committed = 0
    /\ mainpc = "idle"
    /\ runs = 0
    /\ root_ok = TRUE
    /\ exit_code = "none"
    /\ file_list = <<>>
    /\ tpc = <<>>
    /\ checksum = <<>>
    /\ tres = <<>>
    /\ lock = 0
    /\ progress = 0
    /\ summary = NoSummary
    /\ files_to_delete = <<>>
    /\ dpc = <<>>
    /\ del_progress = 0
    /\ mods = 0
    /\ startRows = 0
    /\ allYes = FALSE

\* ------------------------------------------------------- the main thread
\* __main__ lines 157-166: the program starts, is given the directory to scan,
\* existing or not, and opens duplicates.db.
SetupDatabase ==
    /\ mainpc = "idle"
    /\ runs < MaxRuns
    /\ runs' = runs + 1
    /\ root_ok' \in BOOLEAN
    /\ exit_code' = "none"
    /\ store' = setup_database(store)
    /\ committed' = Len(store')
    /\ startRows' = Len(store')
    /\ mainpc' = "enumerate"
    /\ UNCHANGED <<fs, file_list, tpc, checksum, tres, lock, progress, summary,
                   mods>>
    /\ UNCHANGED delVars

\* __main__ line 166 when sqlite3.connect or the CREATE statements raise (the
\* file cannot be opened or written): nothing catches the exception and the
\* interpreter ends the process with exit status 1.
OpenFails ==
    /\ mainpc = "idle"
    /\ runs < MaxRuns
    /\ runs' = runs + 1
    /\ root_ok' \in BOOLEAN
    /\ exit_code' = "nonzero"
    /\ UNCHANGED <<fs, store, committed, mainpc, summary, mods>>
    /\ UNCHANGED scanVars
    /\ UNCHANGED delVars

\* scan_directory lines 43-53: the walk, then a fresh lock.
EnumerateFiles ==
    /\ mainpc = "enumerate"
    /\ file_list' = Walk(fs, root_ok)
    /\ tpc' = [i \in 1..Len(file_list') |-> "new"]
    /\ checksum' = [i \in 1..Len(file_list') |-> None]
    /\ tres' = [i \in 1..Len(file_list') |-> "pending"]
    /\ lock' = 0
    /\ mainpc' = IF file_list' = <<>> THEN "wait" ELSE "submit"
    /\ UNCHANGED <<fs, store, committed, runs, root_ok, exit_code, progress,
                   summary, mods, startRows>>
    /\ UNCHANGED delVars

\* scan_directory lines 56-57: executor.submit, in file_list order.
Submit(i) ==
    /\ mainpc = "submit"
    /\ i \in Tasks
    /\ tpc[i] = "new"
    /\ \A j \in 1..(i - 1) : tpc[j] # "new"
    /\ tpc' = [tpc EXCEPT ![i] = "ready"]
    /\ mainpc' = IF i = Len(file_list) THEN "wait" ELSE "submit"
    /\ UNCHANGED <<fs, store, committed, runs, root_ok, exit_code, file_list,
                   checksum, tres, lock, progress, summary, mods, startRows>>
    /\ UNCHANGED delVars

\* ------------------------------------------------------ the scan workers
\* ThreadPoolExecutor() starts up to min(32, cpu_count + 4) >= 5 threads, more
\* than there are files here, so every submitted call runs on its own.
\* process_file line 64: the file is read now, as one step; a read may fail.
CalculateChecksum(i) ==
    /\ i \in Tasks
    /\ tpc[i] = "ready"
    /\ \E readOk \in BOOLEAN :
         LET sum == IF readOk THEN calculate_checksum(fs, file_list[i][1]) ELSE None
         IN  /\ checksum' = [checksum EXCEPT ![i] = sum]
             /\ IF ShouldInsert(sum)
                  THEN /\ tpc' = [tpc EXCEPT ![i] = "lock"]
                       /\ tres' = tres
                  ELSE /\ tpc' = [tpc EXCEPT ![i] = "done"]
                       /\ tres' = [tres EXCEPT ![i] = "skipped"]
    /\ UNCHANGED <<fs, store, committed, mainpc, runs, root_ok, exit_code,
                   file_list, lock, progress, summary, mods, startRows>>
    /\ UNCHANGED delVars

\* process_file line 67: with lock, __enter__.
CanAcquireUnguarded(i) == TRUE

CanAcquire(i) == lock = 0

AcquireLock(i) ==
    /\ i \in Tasks
    /\ tpc[i] = "lock"
    /\ CanAcquire(i)
    /\ lock' = i
    /\ tpc' = [tpc EXCEPT ![i] = "insert"]
    /\ UNCHANGED <<fs, store, committed, mainpc, runs, root_ok, exit_code,
                   file_list, checksum, tres, progress, summary, mods,
                   startRows>>
    /\ UNCHANGED delVars

\* process_file lines 68-72: the INSERT appends a row, or conn.cursor() or
\* cursor.execute() raises (sqlite3.ProgrammingError when the connection may
\* not be used from a worker thread, sqlite3.OperationalError on a full disk
\* or a locked database).  Nothing catches the exception: it ends the call.
Insert(i) ==
    /\ i \in Tasks
    /\ tpc[i] = "insert"
    /\ \E ok \in BOOLEAN :
         IF ok
           THEN /\ store' = Append(store, NewRow(store, file_list[i][1],
                                                 checksum[i], file_list[i][2]))
                /\ tres' = [tres EXCEPT ![i] = "inserted"]
           ELSE /\ store' = store
                /\ tres' = [tres EXCEPT ![i] = "raised"]
    /\ tpc' = [tpc EXCEPT ![i] = "unlock"]
    /\ UNCHANGED <<fs, committed, mainpc, runs, root_ok, exit_code, file_list,
                   checksum, lock, progress, summary, mods, startRows>>
    /\ UNCHANGED delVars

\* process_file line 67: with lock, __exit__, on return and on exception.
ReleaseLockOnReturnOnly(i) ==
    /\ i \in Tasks
    /\ tpc[i] = "unlock"
    /\ lock' = IF tres[i] = "raised" THEN lock ELSE 0
    /\ tpc' = [tpc EXCEPT ![i] = "done"]
    /\ UNCHANGED <<fs, store, committed, mainpc, runs, root_ok, exit_code,
                   file_list, checksum, tres, progress, summary, mods,
                   startRows>>
    /\ UNCHANGED delVars

ReleaseLock(i) ==
    /\ i \in Tasks
    /\ tpc[i] = "unlock"
    /\ lock' = 0
    /\ tpc' = [tpc EXCEPT ![i] = "done"]
    /\ UNCHANGED <<fs, store, committed, mainpc, runs, root_ok, exit_code,
                   file_list, checksum, tres, progress, summary, mods,
                   startRows>>
    /\ UNCHANGED delVars

\* ------------------------------------------------ main thread, continued
\* scan_directory lines 58-59 and the executor's __exit__: the as_completed
\* loop yields every future, whatever its outcome; no result() is called.
AnyDone == \E i \in Tasks : tpc[i] = "done"

AllSubmitted == \A i \in Tasks : tpc[i] # "new"

AllDone == \A i \in Tasks : tpc[i] = "done"

WaitAll ==
    /\ mainpc = "wait"
    /\ AllDone
    /\ progress' = Len(file_list)
    /\ mainpc' = "commit"
    /\ UNCHANGED <<fs, store, committed, runs, root_ok, exit_code, file_list,
                   tpc, checksum, tres, lock, summary, mods, startRows>>
    /\ UNCHANGED delVars

\* scan_directory line 60; scan_directory then returns None.
Commit ==
    /\ mainpc = "commit"
    /\ committed' = Len(store)
    /\ mainpc' = "summary"
    /\ UNCHANGED <<fs, store, runs, root_ok, exit_code, summary, mods>>
    /\ UNCHANGED scanVars
    /\ UNCHANGED delVars

\* display_summary lines 89-94.
DisplaySummary ==
    /\ mainpc = "summary"
    /\ summary' = [total_duplicates |-> total_duplicates(store),
                   total_space_recovered |-> total_space_recovered(store)]
    /\ mainpc' = "ask"
    /\ UNCHANGED <<fs, store, committed, runs, root_ok, exit_code, mods>>
    /\ UNCHANGED scanVars
    /\ UNCHANGED delVars

\* __main__ line 169.
AskDelete ==
    /\ mainpc = "ask"
    /\ \E yes \in BOOLEAN : mainpc' = IF yes THEN "plan" ELSE "close"
    /\ UNCHANGED <<fs, store, committed, runs, root_ok, exit_code, summary,
                   mods>>
    /\ UNCHANGED scanVars
    /\ UNCHANGED delVars

\* delete_duplicates lines 108-120: every offered path is confirmed or not.
Confirmed(cands, answers) ==
    LET idx == SelectSeq([i \in 1..Len(cands) |-> i], LAMBDA i : answers[i])
    IN  [k \in 1..Len(idx) |-> cands[idx[k]]]

PlanDeletions ==
    /\ mainpc = "plan"
    /\ LET cands == Candidates(store)
       IN  \E answers \in [1..Len(cands) -> BOOLEAN] :
             /\ files_to_delete' = Confirmed(cands, answers)
             /\ allYes' = \A i \in 1..Len(cands) : answers[i]
    /\ dpc' = [i \in 1..Len(files_to_delete') |-> "pending"]
    /\ mainpc' = "delete_wait"
    /\ UNCHANGED <<fs, store, committed, runs, root_ok, exit_code, summary,
                   del_progress, mods>>
    /\ UNCHANGED scanVars

\* delete_file: os.unlink removes the file or raises; the exception is caught.
DeleteFileAndRow(i) ==
    /\ mainpc = "delete_wait"
    /\ i \in 1..Len(files_to_delete)
    /\ dpc[i] = "pending"
    /\ \E permitted \in BOOLEAN :
         IF permitted /\ fs[files_to_delete[i]] # Absent
           THEN /\ fs' = [fs EXCEPT ![files_to_delete[i]] = Absent]
                /\ store' = SelectSeq(store,
                                      LAMBDA r : r.path # files_to_delete[i])
                /\ dpc' = [dpc EXCEPT ![i] = "deleted"]
           ELSE /\ fs' = fs
                /\ store' = store
                /\ dpc' = [dpc EXCEPT ![i] = "error"]
    /\ UNCHANGED <<committed, mainpc, runs, root_ok, exit_code, summary,
                   files_to_delete, del_progress, mods, allYes>>
    /\ UNCHANGED scanVars

DeleteFile(i) ==
    /\ mainpc = "delete_wait"
    /\ i \in 1..Len(files_to_delete)
    /\ dpc[i] = "pending"
    /\ \E permitted \in BOOLEAN :
         IF permitted /\ fs[files_to_delete[i]] # Absent
           THEN /\ fs' = [fs EXCEPT ![files_to_delete[i]] = Absent]
                /\ dpc' = [dpc EXCEPT ![i] = "deleted"]
           ELSE /\ fs' = fs
                /\ dpc' = [dpc EXCEPT ![i] = "error"]
    /\ UNCHANGED <<store, committed, mainpc, runs, root_ok, exit_code, summary,
                   files_to_delete, del_progress, mods, allYes>>
    /\ UNCHANGED scanVars

\* delete_duplicates lines 125-126 and the executor's __exit__: every future
\* is yielded, whether its unlink succeeded or not; the function returns None.
DeleteDone ==
    /\ mainpc = "delete_wait"
    /\ \A i \in 1..Len(files_to_delete) : dpc[i] # "pending"
    /\ del_progress' = Len(files_to_delete)
    /\ mainpc' = "close"
    /\ UNCHANGED <<fs, store, committed, runs, root_ok, exit_code, summary,
                   files_to_delete, dpc, mods, allYes>>
    /\ UNCHANGED scanVars

\* __main__ line 171: the connection is closed and the process ends with
\* exit status 0; its locals are gone, duplicates.db and the files stay.
Close ==
    /\ mainpc = "close"
    /\ mainpc' = "idle"
    /\ exit_code' = "zero"
    /\ file_list' = <<>>
    /\ tpc' = <<>>
    /\ checksum' = <<>>
    /\ tres' = <<>>
    /\ lock' = 0
    /\ progress' = 0
    /\ summary' = NoSummary
    /\ files_to_delete' = <<>>
    /\ dpc' = <<>>
    /\ del_progress' = 0
    /\ allYes' = FALSE
    /\ UNCHANGED <<fs, store, committed, runs, root_ok, mods, startRows>>

\* ------------------------------------------------------- the environment
\* The race of the scan: another process rewrites a file with different content
\* between the file's enumeration, where its size was read, and its checksum
\* computation.  No submit reads a file, so a rewrite during the submit loop
\* has the effect of the same rewrite right after it.
InWindow(path) ==
    \E i \in Tasks : /\ file_list[i][1] = path
                     /\ tpc[i] = "ready"

Modify(path, content) ==
    /\ mods < MaxMods
    /\ mainpc = "wait"
    /\ InWindow(path)
    /\ fs[path] # Absent
    /\ fs[path] # content
    /\ fs' = [fs EXCEPT ![path] = content]
    /\ mods' = mods + 1
    /\ UNCHANGED <<store, committed, mainpc, runs, root_ok, exit_code,
                   summary>>
    /\ UNCHANGED scanVars
    /\ UNCHANGED delVars

Next ==
    \/ SetupDatabase
    \/ OpenFails
    \/ EnumerateFiles
    \/ \E i \in 1..Len(PathOrder) : Submit(i)
    \/ \E i \in 1..Len(PathOrder) : CalculateChecksum(i)
    \/ \E i \in 1..Len(PathOrder) : AcquireLock(i)
    \/ \E i \in 1..Len(PathOrder) : Insert(i)
    \/ \E i \in 1..Len(PathOrder) : ReleaseLock(i)
    \/ WaitAll
    \/ Commit
    \/ DisplaySummary
    \/ AskDelete
    \/ PlanDeletions
    \/ \E i \in 1..(MaxRuns * Len(PathOrder)) : DeleteFile(i)
    \/ DeleteDone
    \/ Close
    \/ \E p \in Paths, c \in Contents : Modify(p, c)

Spec == Init /\ [][Next]_vars

\* The scheduling the scan relies on: the main thread keeps running, and every
\* submitted call is run by a pool thread that keeps taking steps; a thread
\* waiting for the lock gets it once the lock stays free.
ScanFairness ==
    /\ WF_vars(EnumerateFiles)
    /\ WF_vars(WaitAll)
    /\ WF_vars(Commit)
    /\ \A i \in 1..Len(PathOrder) :
         /\ WF_vars(Submit(i))
         /\ WF_vars(CalculateChecksum(i))
         /\ WF_vars(AcquireLock(i))
         /\ WF_vars(Insert(i))
         /\ WF_vars(ReleaseLock(i))

FairSpec == Init /\ [][Next]_vars /\ ScanFairness

\* ======================================================================
\* Properties
\* ======================================================================
\* scan_directory of the current run has returned.
ScanReturned == mainpc \in {"summary", "ask", "plan", "delete_wait", "close"}

\* The calls whose checksum computation failed.
Skipped == {i \in Tasks : tres[i] = "skipped"}

\* The rows the current scan has added for a path.
RowsFor(path) == {k \in (startRows + 1)..Len(store) : store[k].path = path}

\* The checksums that form a duplicate group, and a group's row numbers.
RowsOf(sum) == {k \in 1..Len(store) : store[k].checksum = sum}
DupChecksums == {sum \in {store[k].checksum : k \in 1..Len(store)} :
                   Cardinality(RowsOf(sum)) > 1}
PathsOf(sum) == {store[k].path : k \in RowsOf(sum)}

Min(S) == CHOOSE x \in S : \A y \in S : x <= y

RECURSIVE SizeSum(_)
SizeSum(S) == IF S = {} THEN 0
              ELSE LET k == Min(S) IN store[k].size + SizeSum(S \ {k})

RECURSIVE SumOver(_, _)
SumOver(Op(_), S) == IF S = {} THEN 0
                     ELSE LET x == CHOOSE y \in S : TRUE
                          IN  Op(x) + SumOver(Op, S \ {x})

\* ---------------------------------------------------------------- C1
\* C1: starting from an empty store, when scan_directory has returned after
\* scanning N files of which K failed their checksum, the store holds exactly
\* N-K rows: one row for every file whose checksum succeeded and no other.
C1_OneRowPerChecksummedFile ==
    (ScanReturned /\ startRows = 0) =>
        /\ Len(store) = Len(file_list) - Cardinality(Skipped)
        /\ \A i \in Tasks :
             Cardinality(RowsFor(file_list[i][1])) =
                 IF checksum[i] # None THEN 1 ELSE 0

\* ---------------------------------------------------------------- C2
\* C2: after delete_duplicates has finished with every confirmation answered
\* yes and every unlink succeeding, exactly one file of every duplicate group
\* of the index still exists.
DeletionFinishedAllYes ==
    /\ mainpc = "close"
    /\ allYes
    /\ \A i \in 1..Len(files_to_delete) : dpc[i] = "deleted"

C2_OneSurvivorPerGroup ==
    DeletionFinishedAllYes =>
        \A sum \in DupChecksums :
            Cardinality({p \in PathsOf(sum) : fs[p] # Absent}) = 1

\* ---------------------------------------------------------------- C3
\* C3: for every duplicate group of size n the plan keeps the path of the
\* first-inserted row and offers exactly the other n-1 paths; the keeper is a
\* member of the group and is never itself offered for deletion.
C3_KeeperNeverOffered ==
    \A sum \in DupChecksums :
        LET paths == PathsWithChecksum(store, sum)
            offered == Offered(paths)
        IN  /\ Keeper(paths) = store[Min(RowsOf(sum))].path
            /\ Len(offered) = Cardinality(RowsOf(sum)) - 1
            /\ Keeper(paths) \in PathsOf(sum)
            /\ \A k \in 1..Len(offered) : offered[k] # Keeper(paths)

\* ---------------------------------------------------------------- C4
\* C4: at most one worker is inside the section guarded by the lock, the
\* worker inside is the lock's holder, and the lock is free whenever no worker
\* is inside: it is released after every insert, also after one that raised.
InsideLock(i) == tpc[i] \in {"insert", "unlock"}

C4_SingleWriter ==
    /\ Cardinality({i \in Tasks : InsideLock(i)}) <= 1
    /\ \A i \in Tasks : InsideLock(i) => lock = i
    /\ (\A i \in Tasks : ~InsideLock(i)) => lock = 0

\* A worker is inserting after another worker's insert raised and gave the
\* lock back.
C4_Witness ==
    \E i, j \in Tasks : /\ tres[i] = "raised"
                        /\ tpc[i] = "done"
                        /\ tpc[j] = "insert"

\* A worker computes its checksum while another one is inside the insert.
C4_OverlapReached ==
    \E i, j \in Tasks : tpc[i] = "ready" /\ tpc[j] = "insert"

\* ---------------------------------------------------------------- C5
\* C5: once the wait of scan_directory is over every dispatched call has
\* completed and the lock is free; nothing is committed while the pool works,
\* and after the commit every row is durable.
C5_ReturnsAfterAllDone ==
    /\ (mainpc = "commit" \/ ScanReturned) =>
           /\ \A i \in Tasks : tpc[i] = "done" /\ tres[i] # "pending"
           /\ lock = 0
    /\ mainpc \in {"submit", "wait", "commit"} => committed = startRows
    /\ ScanReturned => committed = Len(store)

\* The scan returned with one file inserted and the other skipped.
C5_Witness ==
    /\ mainpc = "summary"
    /\ \E i, j \in Tasks : tres[i] = "inserted" /\ tres[j] = "skipped"
    /\ committed > startRows

\* ---------------------------------------------------------------- C6
\* C6: every row carries a non-null checksum; a row of the running scan
\* carries the digest its call computed for its path, and a call whose
\* checksum failed has no row.
C6_NoRowForFailedChecksum ==
    /\ \A k \in 1..Len(store) :
         /\ store[k].checksum # None
         /\ \E c \in Contents : store[k].checksum = Digest(c)
    /\ mainpc # "idle" =>
         /\ \A k \in (startRows + 1)..Len(store) :
              \E i \in Tasks : /\ store[k].path = file_list[i][1]
                               /\ store[k].checksum = checksum[i]
                               /\ tres[i] = "inserted"
         /\ \A i \in Tasks :
              (tpc[i] = "done" /\ checksum[i] = None) =>
                  /\ tres[i] = "skipped"
                  /\ RowsFor(file_list[i][1]) = {}

\* One call was skipped for a failed checksum, the other inserted its row.
C6_Witness ==
    /\ mainpc = "wait"
    /\ \E i, j \in Tasks : /\ tres[i] = "skipped"
                           /\ tres[j] = "inserted"
                           /\ RowsFor(file_list[j][1]) # {}

\* ---------------------------------------------------------------- C7
\* C7: an insert that fails is never dropped silently: when an insert has
\* raised, scan_directory does not complete normally.
C7_InsertFailureIsFatal ==
    ScanReturned => \A i \in Tasks : tres[i] # "raised"

\* ---------------------------------------------------------------- C8
\* C8: after scanning N files of which K failed their checksum, the count of
\* processed files the scan reports is N-K (and the skipped count K).  The
\* only count the scan shows is tqdm's.
ReportedProcessed == progress
ReportedSkipped == Len(file_list) - progress

C8_ReportCounts ==
    ScanReturned =>
        /\ ReportedSkipped = Cardinality(Skipped)
        /\ ReportedProcessed = Len(file_list) - Cardinality(Skipped)

\* ---------------------------------------------------------------- C9
\* C9: the summary's totalDuplicates is the sum over the duplicate groups of
\* (count - 1), its totalReclaimableBytes the sum over the groups of
\* (totalSize - totalSize div count); a group whose files all have size S
\* contributes S * (count - 1).
SummaryShown == mainpc \in {"ask", "plan", "delete_wait", "close"}

GroupCount(sum) == Cardinality(RowsOf(sum))
GroupSize(sum) == SizeSum(RowsOf(sum))
GroupDups(sum) == GroupCount(sum) - 1
GroupReclaimable(sum) == GroupSize(sum) - (GroupSize(sum) \div GroupCount(sum))

C9_SummaryTotals ==
    SummaryShown =>
        /\ summary.total_duplicates = SumOver(GroupDups, DupChecksums)
        /\ summary.total_space_recovered = SumOver(GroupReclaimable, DupChecksums)
        /\ \A sum \in DupChecksums : \A S \in 0..4 :
             (\A k \in RowsOf(sum) : store[k].size = S) =>
                 SpaceOfGroup(GroupTuple(store, sum)) = S * (GroupCount(sum) - 1)

\* The summary counted a group of at least three rows that all have the same
\* size S > 0.
C9_Witness ==
    /\ SummaryShown
    /\ \E sum \in DupChecksums :
         /\ GroupCount(sum) >= 3
         /\ \A k \in RowsOf(sum) : store[k].size = store[Min(RowsOf(sum))].size
         /\ summary.total_space_recovered >= 2 * store[Min(RowsOf(sum))].size
         /\ store[Min(RowsOf(sum))].size > 0

\* ---------------------------------------------------------------- C10
\* C10, as claimed: rows that share a checksum have the same recorded size,
\* also when a file is rewritten between its enumeration and its checksum.
C10_SameChecksumSameSize ==
    \A k1, k2 \in 1..Len(store) :
        store[k1].checksum = store[k2].checksum => store[k1].size = store[k2].size

\* C10, amended: as long as no file was rewritten between its enumeration and
\* its checksum computation, rows that share a checksum have the same size and
\* every group's reclaimable figure is the sum of the sizes of its members
\* other than the keeper.
C10_SameSizeUnlessRewritten ==
    mods = 0 =>
        /\ C10_SameChecksumSameSize
        /\ \A sum \in DupChecksums :
             SpaceOfGroup(GroupTuple(store, sum)) =
                 SizeSum(RowsOf(sum) \ {Min(RowsOf(sum))})

\* Without any rewrite the scan has recorded a duplicate group of two
\* different files, and the summary has been computed from it.
C10_Witness ==
    /\ mods = 0
    /\ SummaryShown
    /\ \E sum \in DupChecksums : Cardinality(PathsOf(sum)) > 1
    /\ summary.total_space_recovered > 0

\* ---------------------------------------------------------------- C11
\* C11: every run scans into a fresh index: no row of an earlier run is in the
\* store while a run is under way, so a scan in which every file was inserted
\* leaves exactly one row per enumerated file, in the second run as in the
\* first.
C11_FreshIndexPerRun ==
    /\ mainpc # "idle" => startRows = 0
    /\ (ScanReturned /\ \A i \in Tasks : tres[i] = "inserted") =>
           Len(store) = Len(file_list)

\* ---------------------------------------------------------------- C12
\* C12: every enumerated file is dispatched exactly once per scan (the work
\* list names no path twice and, once the submit loop is over, every entry has
\* been submitted), and no two rows of the store have the same path.
C12_PathRecordedOnce ==
    /\ \A i, j \in Tasks : file_list[i][1] = file_list[j][1] => i = j
    /\ mainpc = "wait" => \A i \in Tasks : tpc[i] # "new"
    /\ \A k1, k2 \in 1..Len(store) : store[k1].path = store[k2].path => k1 = k2

\* ---------------------------------------------------------------- C13
\* delete_duplicates has returned (the deletion pool has drained).
DeletionReturned == mainpc = "close" /\ del_progress = Len(files_to_delete)

\* The only count the deletion shows is tqdm's.
ReportedDeleted == del_progress
ReportedFailed == Len(files_to_delete) - del_progress

\* C13: when delete_duplicates has returned, every path selected for deletion
\* was attempted exactly once, a failed deletion kept none of the others from
\* being attempted, and the deleted and failed counts are reported.
C13_BatchAttemptsAndCounts ==
    DeletionReturned =>
        /\ \A i \in 1..Len(files_to_delete) : dpc[i] \in {"deleted", "error"}
        /\ \A i, j \in 1..Len(files_to_delete) :
             files_to_delete[i] = files_to_delete[j] => i = j
        /\ ReportedDeleted =
               Cardinality({i \in 1..Len(files_to_delete) : dpc[i] = "deleted"})
        /\ ReportedFailed =
               Cardinality({i \in 1..Len(files_to_delete) : dpc[i] = "error"})

\* ---------------------------------------------------------------- C14
\* A call of the scan pool is computing its checksum or inserting.
ScanWorking == \E i \in Tasks : tpc[i] \in {"ready", "lock", "insert", "unlock"}

\* C14: while a scan worker is at work the main thread is still inside
\* scan_directory: no summary or grouping query has read the store, no
\* deletion plan exists and no deletion worker has started.
C14_PoolsNeverOverlap ==
    ScanWorking =>
        /\ mainpc \in {"submit", "wait"}
        /\ summary = NoSummary
        /\ files_to_delete = <<>>
        /\ dpc = <<>>
        /\ del_progress = 0

\* A deletion worker has removed a file after a scan in which both calls
\* inserted their rows.
C14_Witness ==
    /\ mainpc = "delete_wait"
    /\ \E i \in 1..Len(files_to_delete) : dpc[i] = "deleted"
    /\ Len(file_list) = 2
    /\ \A i \in Tasks : tres[i] = "inserted" /\ tpc[i] = "done"

\* ---------------------------------------------------------------- C15
\* C15: a run ends with exit status 0 only when the store was opened and the
\* scan root exists and is a directory; with a missing root the program does
\* not go on to print a summary and offer deletion as if the root were an
\* empty directory.
C15_ExitCodes ==
    /\ (mainpc = "idle" /\ exit_code = "zero") => root_ok
    /\ (mainpc # "idle" /\ ~root_ok) =>
           mainpc \notin {"ask", "plan", "delete_wait"}

\* ---------------------------------------------------------------- C16
\* The keepers of the duplicate groups, and the paths of which some
\* confirmation was answered no (offered more often than selected).
KeeperPaths == {Keeper(PathsWithChecksum(store, sum)) : sum \in DupChecksums}

Occurrences(seq, x) == Cardinality({k \in 1..Len(seq) : seq[k] = x})

DeclinedPaths ==
    {p \in Paths : Occurrences(Candidates(store), p) > Occurrences(files_to_delete, p)}

\* C16: a file unlinked by delete_duplicates is a member of a duplicate group,
\* is not the keeper of a group, and no confirmation for its path was declined.
C16_OnlyConfirmedNonKeepers ==
    \A i \in 1..Len(files_to_delete) :
        dpc[i] = "deleted" =>
            /\ \E sum \in DupChecksums : files_to_delete[i] \in PathsOf(sum)
            /\ files_to_delete[i] \notin KeeperPaths
            /\ files_to_delete[i] \notin DeclinedPaths

\* ---------------------------------------------------------------- C17
\* C17: under fair scheduling every scan that has started returns: whatever
\* checksums fail and whatever inserts raise, the main thread gets from the
\* walk to the statement after scan_directory, with the write lock free.
C17_ScanReturns ==
    (mainpc = "enumerate") ~> (mainpc = "summary" /\ lock = 0)

\* The scan has returned although one insert raised and one checksum failed.
C17_Witness ==
    /\ mainpc = "summary"
    /\ lock = 0
    /\ \E i, j \in Tasks : tres[i] = "raised" /\ tres[j] = "skipped"

\* ---------------------------------------------------------------- C18
\* A step taken inside delete_duplicates leaves the rows, the commit state and
\* the duplicate groups as they were.
DeletionStepKeepsStore ==
    mainpc \in {"plan", "delete_wait"} =>
        /\ store' = store
        /\ committed' = committed
        /\ find_duplicates(store') = find_duplicates(store)

\* C18: delete_duplicates leaves the store as it found it: no step of the
\* deletion changes a row, every path selected for deletion, deleted or not,
\* keeps its row in its duplicate group, and the groups found after the
\* deletion give the totals the summary gave before it.
C18_DeletionLeavesStore ==
    /\ [](mainpc \in {"delete_wait", "close"} =>
            /\ \A i \in 1..Len(files_to_delete) :
                 \E k \in 1..Len(store) :
                     /\ store[k].path = files_to_delete[i]
                     /\ store[k].checksum \in DupChecksums
            /\ summary.total_duplicates = total_duplicates(store)
            /\ summary.total_space_recovered = total_space_recovered(store))
    /\ [][DeletionStepKeepsStore]_vars

\* A file has been unlinked and its row is still in the store.
C18_Witness ==
    /\ mainpc = "close"
    /\ \E i \in 1..Len(files_to_delete) :
         /\ dpc[i] = "deleted"
         /\ fs[files_to_delete[i]] = Absent
         /\ \E k \in 1..Len(store) : store[k].path = files_to_delete[i]
    /\ summary.total_duplicates > 0

====
